---- MODULE Spec2Model ----
(***************************************************************************)
(* Model of app/assets/python/comfyui.py: a one-shot client that patches a *)
(* workflow graph, submits it over HTTP, demultiplexes the websocket       *)
(* stream of the job and writes the collected images.                      *)
(*                                                                         *)
(* Encodings.                                                              *)
(*  - A Python dict whose iteration order matters (the graph, the          *)
(*    collected images) is a sequence of <<key, value>> pairs in insertion *)
(*    order.                                                               *)
(*  - A node definition is a TLA+ record whose DOMAIN is the set of keys   *)
(*    the JSON object has; a JSON value that is not an object is the       *)
(*    record [scalar |-> ...].                                             *)
(*  - JSON leaf values are written as their JSON text ("15", "512.0").     *)
(*  - An optional string (a str or None) is <<s>> or <<>>.                 *)
(*  - A byte string is a sequence of numbers.                              *)
(***************************************************************************)
EXTENDS Integers, Sequences, FiniteSets, TLC

VARIABLES
    workflow,        \* content of workflows/<workflow_name> (json.load result)
    seed,            \* module-level seed = random.randint(0, 1000000)
    prompt,          \* the graph being patched / submitted
    pc,              \* position of the script
    ws,              \* websocket: "new", "open", "closed"
    posted,          \* graphs received by POST /prompt, in order
    prompt_id,       \* get_images: job id returned by queue_prompt
    output_node_id,  \* get_images: result of find_output_node_id
    output_images,   \* get_images: collected mapping
    current_node,    \* get_images: current_node
    out,             \* get_images: the frame last returned by ws.recv()
    nrecv,           \* number of frames received so far
    images,          \* module-level images = get_images(...)
    files,           \* contents of the files written under images/, in order
    nclose,          \* number of ws.close() calls made
    named,           \* history: node named by the last 'executing' event of this job
    accepted,        \* history: the raw binary frames the loop appended, in order
    nbin,            \* history: number of binary frames received
    call,            \* last direct call of a patch function and its result
    ncalls,          \* number of direct calls made
    dims             \* <<width, height>> handed to the aspect-ratio computation

vars == <<workflow, seed, prompt, pc, ws, posted, prompt_id, output_node_id,
          output_images, current_node, out, nrecv, images, files, nclose,
          named, accepted, nbin, call, ncalls, dims>>

(***************************************************************************)
(* Bounds                                                                  *)
(***************************************************************************)
MaxNodes == 2
MaxFrames == 4
MaxCalls == 2
MaxDim == 17

(***************************************************************************)
(* Program constants                                                       *)
(***************************************************************************)
OUTPUT_NODE_WORKFLOW_TYPE == "SaveImageWebsocket"
ratio == "LANDSCAPE"
content_prompt == "A beautiful space station in the sky, seen from the ground"
steps == "15"
size_float == "512.0"

None == <<>>
Some(s) == <<s>>

(***************************************************************************)
(* Python dict helpers (insertion-ordered)                                 *)
(***************************************************************************)
DictKeys(d) == {d[i][1] : i \in 1..Len(d)}

\* as DictAppend, inserting at the front of the list
DictAppendPrepending(d, k, x) ==
    IF k \in DictKeys(d)
    THEN [i \in 1..Len(d) |-> IF d[i][1] = k THEN <<k, <<x>> \o d[i][2]>> ELSE d[i]]
    ELSE Append(d, <<k, <<x>>>>)

\* d[k] = [] when k is absent, then d[k].append(x)
DictAppend(d, k, x) ==
    IF k \in DictKeys(d)
    THEN [i \in 1..Len(d) |-> IF d[i][1] = k THEN <<k, Append(d[i][2], x)>> ELSE d[i]]
    ELSE Append(d, <<k, <<x>>>>)

\* node_data[key] = value on a JSON object
SetKey(obj, key, value) ==
    [k \in DOMAIN obj \cup {key} |-> IF k = key THEN value ELSE obj[k]]

IsDict(node_data) == "scalar" \notin DOMAIN node_data

\* a linear scan returning at the first match: the least index of S, 0 when
\* nothing matches
FirstIndex(S) ==
    IF S = {} THEN 0 ELSE CHOOSE i \in S : \A j \in S : i <= j

(***************************************************************************)
(* Workflow patcher                                                        *)
(***************************************************************************)
IsOutputNode(node_data) ==
    /\ IsDict(node_data)
    /\ "class_type" \in DOMAIN node_data
    /\ node_data["class_type"] = OUTPUT_NODE_WORKFLOW_TYPE

find_output_node_id(g) ==
    LET i == FirstIndex({k \in 1..Len(g) : IsOutputNode(g[k][2])})
    IN  IF i = 0 THEN None ELSE Some(g[i][1])

HasTitle(node_data, title) ==
    /\ IsDict(node_data)
    /\ "_meta" \in DOMAIN node_data
    /\ "title" \in DOMAIN node_data["_meta"]
    /\ node_data["_meta"]["title"] = title

\* index of the node returned by find_node_by_title, 0 for (None, None)
find_node_by_title(g, title) ==
    FirstIndex({k \in 1..Len(g) : HasTitle(g[k][2], title)})

\* update_node_value patching every node that carries the title
update_node_value_all(g, title, value) ==
    LET hit == {i \in 1..Len(g) : HasTitle(g[i][2], title) /\ "inputs" \in DOMAIN g[i][2]}
    IN  [prompt |-> [i \in 1..Len(g) |->
                        IF i \in hit
                        THEN <<g[i][1], [g[i][2] EXCEPT !["inputs"] = SetKey(@, "value", value)]>>
                        ELSE g[i]],
         ret |-> hit # {}]

\* the graph after the call, and the value returned
update_node_value(g, title, value) ==
    LET i == find_node_by_title(g, title)
    IN  IF i # 0 /\ "inputs" \in DOMAIN g[i][2]
        THEN [prompt |-> [g EXCEPT ![i] =
                             <<g[i][1], [g[i][2] EXCEPT !["inputs"] = SetKey(@, "value", value)]>>],
              ret |-> TRUE]
        ELSE [prompt |-> g, ret |-> FALSE]

IsKSamplerWithInputs(node_data) ==
    /\ IsDict(node_data)
    /\ "class_type" \in DOMAIN node_data
    /\ node_data["class_type"] = "KSampler"
    /\ "inputs" \in DOMAIN node_data

update_ksampler_steps(g, steps_value) ==
    LET i == FirstIndex({k \in 1..Len(g) : IsKSamplerWithInputs(g[k][2])})
    IN  IF i # 0
        THEN [prompt |-> [g EXCEPT ![i] =
                             <<g[i][1], [g[i][2] EXCEPT !["inputs"] = SetKey(@, "steps", steps_value)]>>],
              ret |-> TRUE]
        ELSE [prompt |-> g, ret |-> FALSE]

\* load_prompt stopping at the first patch that fails
load_prompt_abort(file, seed_value) ==
    LET r1 == update_node_value(file, "Ratio", ratio)
        r2 == update_node_value(r1.prompt, "ContentPrompt", content_prompt)
        r3 == update_node_value(r2.prompt, "Seed", seed_value)
        r4 == update_node_value(r3.prompt, "Size", size_float)
    IN  IF ~r1.ret THEN r1.prompt
        ELSE IF ~r2.ret THEN r2.prompt
        ELSE IF ~r3.ret THEN r3.prompt
        ELSE IF ~r4.ret THEN r4.prompt
        ELSE update_ksampler_steps(r4.prompt, steps).prompt

load_prompt(file, seed_value) ==
    LET p1 == update_node_value(file, "Ratio", ratio).prompt
        p2 == update_node_value(p1, "ContentPrompt", content_prompt).prompt
        p3 == update_node_value(p2, "Seed", seed_value).prompt
        p4 == update_node_value(p3, "Size", size_float).prompt
    IN  update_ksampler_steps(p4, steps).prompt

(***************************************************************************)
(* Job runner: frames, the read loop of get_images                         *)
(***************************************************************************)
JobIds == {"job-a", "job-b"}
EventTypes == {"executing", "progress"}
EventNodes == {"", "3", "9"}
Payloads == { <<137, 80, 78, 71, 13, 10, 26, 10>>,
              <<0, 0, 0, 1, 0, 0, 0, 1, 255>>,
              <<0, 0, 0, 1, 0, 0, 0, 2, 80, 78>> }

TextFrames ==
    [bin : {FALSE}, type : EventTypes, prompt_id : JobIds,
     node : {None} \cup {Some(n) : n \in EventNodes}, data : {<<>>}]

BinaryFrames ==
    [bin : {TRUE}, type : {""}, prompt_id : {""}, node : {None}, data : Payloads]

Frames == TextFrames \cup BinaryFrames

NoFrame == [bin |-> FALSE, type |-> "", prompt_id |-> "", node |-> None, data |-> <<>>]

\* a text frame on which json.loads or a subscript of the loop raises
BadText ==
    [bin |-> FALSE, type |-> "<text the loop cannot decode>", prompt_id |-> "",
     node |-> None, data |-> <<>>]

\* value of a local variable that has not been assigned yet
Unset == <<"unset", "unset">>

\* out[8:]
Strip8(bytes) == SubSeq(bytes, 9, Len(bytes))

\* the loop body that ignores the job id of an 'executing' event
loop_body_any_job(cur, imgs, outid, pid, f) ==
    IF ~f.bin
    THEN IF f.type = "executing"
         THEN IF f.node = None
              THEN [brk |-> TRUE, current_node |-> cur, output_images |-> imgs]
              ELSE [brk |-> FALSE, current_node |-> f.node, output_images |-> imgs]
         ELSE [brk |-> FALSE, current_node |-> cur, output_images |-> imgs]
    ELSE IF cur = outid
         THEN [brk |-> FALSE, current_node |-> cur,
               output_images |-> DictAppend(imgs, cur[1], Strip8(f.data))]
         ELSE [brk |-> FALSE, current_node |-> cur, output_images |-> imgs]

\* the loop body that collects every binary frame under the current node
loop_body_no_filter(cur, imgs, outid, pid, f) ==
    IF ~f.bin
    THEN IF f.type = "executing" /\ f.prompt_id = pid
         THEN IF f.node = None
              THEN [brk |-> TRUE, current_node |-> cur, output_images |-> imgs]
              ELSE [brk |-> FALSE, current_node |-> f.node, output_images |-> imgs]
         ELSE [brk |-> FALSE, current_node |-> cur, output_images |-> imgs]
    ELSE [brk |-> FALSE, current_node |-> cur,
          output_images |-> DictAppend(imgs, cur[1], Strip8(f.data))]

\* one iteration of `while True` on the frame f: whether it breaks, and the
\* locals after it
loop_body(cur, imgs, outid, pid, f) ==
    IF ~f.bin
    THEN IF f.type = "executing"
         THEN IF f.prompt_id = pid
              THEN IF f.node = None
                   THEN [brk |-> TRUE, current_node |-> cur, output_images |-> imgs]
                   ELSE [brk |-> FALSE, current_node |-> f.node, output_images |-> imgs]
              ELSE [brk |-> FALSE, current_node |-> cur, output_images |-> imgs]
         ELSE [brk |-> FALSE, current_node |-> cur, output_images |-> imgs]
    ELSE IF cur = outid
         THEN [brk |-> FALSE, current_node |-> cur,
               output_images |-> DictAppend(imgs, cur[1], Strip8(f.data))]
         ELSE [brk |-> FALSE, current_node |-> cur, output_images |-> imgs]

\* contents written, one file per entry, in iteration order
save_images_last(imgs) == [i \in 1..Len(imgs) |-> imgs[i][2][Len(imgs[i][2])]]

save_images(imgs) == [i \in 1..Len(imgs) |-> imgs[i][2][1]]

(***************************************************************************)
(* Graph shapes                                                            *)
(***************************************************************************)
NodeIds == {"", "3", "9"}
Seeds == {"0", "1000000"}

OutputNode == [class_type |-> OUTPUT_NODE_WORKFLOW_TYPE, inputs |-> [images |-> "link"]]
KSamplerNode == [class_type |-> "KSampler", inputs |-> [steps |-> "20"],
                 _meta |-> [title |-> "KSampler"]]
KSamplerBare == [class_type |-> "KSampler", _meta |-> [title |-> "KSampler"]]
SeedNode == [class_type |-> "PrimitiveInt", inputs |-> [value |-> "1", note |-> "n"],
             _meta |-> [title |-> "Seed"]]
SeedNoValue == [class_type |-> "PrimitiveInt", inputs |-> [note |-> "n"],
                _meta |-> [title |-> "Seed"]]
SeedNoInputs == [class_type |-> "PrimitiveInt", _meta |-> [title |-> "Seed"]]
RatioNode == [class_type |-> "PrimitiveString", inputs |-> [value |-> "SQUARE"],
              _meta |-> [title |-> "Ratio"]]
UntitledNode == [inputs |-> [value |-> "1"], _meta |-> [note |-> "n"]]
ScalarNode == [scalar |-> "x"]

NodeShapes == {OutputNode, KSamplerNode, KSamplerBare, SeedNode, SeedNoValue,
               SeedNoInputs, RatioNode, UntitledNode, ScalarNode}

\* every graph of at most MaxNodes nodes with distinct ids
Graphs ==
    UNION {{g \in [1..n -> NodeIds \X NodeShapes] :
              \A i, j \in 1..n : i # j => g[i][1] # g[j][1]} : n \in 0..MaxNodes}

\* the workflow files the script is run on
Workflows ==
    { << <<"3", KSamplerNode>>, <<"5", SeedNode>>, <<"9", OutputNode>> >>,
      << <<"3", KSamplerNode>>, <<"5", SeedNoInputs>> >>,
      << <<"", OutputNode>>, <<"7", RatioNode>> >>,
      << <<"9", OutputNode>>, <<"3", OutputNode>> >> }

(***************************************************************************)
(* Aspect-ratio computation (described by the specification only)          *)
(***************************************************************************)
Selectors == {"SQUARE", "LANDSCAPE", "PORTRAIT", "WIDE"}

\* floor(x * 9 / 16)
Scale9_16(x) == (x * 9) \div 16

\* floor(x * 16 / 9)
Scale16_9(x) == (x * 16) \div 9

apply_ratio_16_9(wh, selector) ==
    IF selector = "LANDSCAPE" THEN <<wh[1], Scale16_9(wh[2])>>
    ELSE IF selector = "PORTRAIT" THEN <<Scale16_9(wh[1]), wh[2]>>
    ELSE wh

apply_ratio(wh, selector) ==
    IF selector = "LANDSCAPE" THEN <<wh[1], Scale9_16(wh[2])>>
    ELSE IF selector = "PORTRAIT" THEN <<Scale9_16(wh[1]), wh[2]>>
    ELSE wh

(***************************************************************************)
(* The script, lines 122-128                                               *)
(***************************************************************************)
NoCall == [fn |-> "", title |-> "", value |-> "", ret |-> FALSE]

Idle ==
    /\ ws = "new" /\ posted = <<>> /\ prompt_id = ""
    /\ output_node_id = Unset /\ output_images = <<>> /\ current_node = Unset
    /\ out = NoFrame /\ nrecv = 0 /\ images = <<>> /\ files = <<>> /\ nclose = 0
    /\ named = None /\ accepted = <<>> /\ nbin = 0

Init ==
    /\ workflow \in Workflows
    /\ seed \in Seeds
    /\ prompt = <<>>
    /\ pc = "start"
    /\ Idle
    /\ call = NoCall /\ ncalls = 0 /\ dims = <<0, 0>>

\* line 122: prompt = load_prompt(workflow_name)
LoadPrompt ==
    /\ pc = "start"
    /\ prompt' = load_prompt(workflow, seed)
    /\ pc' = "loaded"
    /\ UNCHANGED <<workflow, seed, ws, posted, prompt_id, output_node_id,
                   output_images, current_node, out, nrecv, images, files, nclose,
                   named, accepted, nbin, call, ncalls, dims>>

\* lines 123-124: ws = websocket.WebSocket(); ws.connect(...)
Connect ==
    /\ pc = "loaded"
    /\ ws' = "open"
    /\ pc' = "connected"
    /\ UNCHANGED <<workflow, seed, prompt, posted, prompt_id, output_node_id,
                   output_images, current_node, out, nrecv, images, files, nclose,
                   named, accepted, nbin, call, ncalls, dims>>

\* ws.connect raises: the script ends with the exception
ConnectRaise ==
    /\ pc = "loaded"
    /\ pc' = "raised"
    /\ UNCHANGED <<workflow, seed, prompt, ws, posted, prompt_id, output_node_id,
                   output_images, current_node, out, nrecv, images, files, nclose,
                   named, accepted, nbin, call, ncalls, dims>>

\* lines 47-50: the job is queued, the output node resolved, the locals set
GetImagesEnter ==
    /\ pc = "connected"
    /\ \E id \in JobIds : prompt_id' = id
    /\ posted' = Append(posted, prompt)
    /\ output_node_id' = find_output_node_id(prompt)
    /\ output_images' = <<>>
    /\ current_node' = Some("")
    /\ pc' = "reading"
    /\ UNCHANGED <<workflow, seed, prompt, ws, out, nrecv, images, files, nclose,
                   named, accepted, nbin, call, ncalls, dims>>

\* line 36: urlopen raises before the request reaches the server (URLError):
\* the script ends with the exception
QueuePromptRaise ==
    /\ pc = "connected"
    /\ pc' = "raised"
    /\ UNCHANGED <<workflow, seed, prompt, ws, posted, prompt_id, output_node_id,
                   output_images, current_node, out, nrecv, images, files, nclose,
                   named, accepted, nbin, call, ncalls, dims>>

\* lines 36 and 47: the server has received the graph and the call still
\* raises: urlopen raises HTTPError on the answer's status, or the answer
\* holds no 'prompt_id' (KeyError)
QueuePromptRaiseAfterPost ==
    /\ pc = "connected"
    /\ posted' = Append(posted, prompt)
    /\ pc' = "raised"
    /\ UNCHANGED <<workflow, seed, prompt, ws, prompt_id, output_node_id,
                   output_images, current_node, out, nrecv, images, files, nclose,
                   named, accepted, nbin, call, ncalls, dims>>

\* lines 51-68 and 125: one frame is received and handled; on break get_images
\* returns and the result is bound to images
Recv ==
    /\ pc = "reading"
    /\ nrecv < MaxFrames
    /\ \E f \in Frames :
         LET r == loop_body(current_node, output_images, output_node_id, prompt_id, f)
         IN  /\ out' = f
             /\ nrecv' = nrecv + 1
             /\ current_node' = r.current_node
             /\ output_images' = r.output_images
             /\ pc' = IF r.brk THEN "returned" ELSE "reading"
             /\ images' = IF r.brk THEN r.output_images ELSE images
             /\ nbin' = IF f.bin THEN nbin + 1 ELSE nbin
             /\ named' = IF ~f.bin /\ f.type = "executing" /\ f.prompt_id = prompt_id
                            /\ f.node # None
                         THEN f.node ELSE named
             /\ accepted' = IF f.bin /\ r.output_images # output_images
                            THEN Append(accepted, f.data) ELSE accepted
    /\ UNCHANGED <<workflow, seed, prompt, ws, posted, prompt_id, output_node_id,
                   files, nclose, call, ncalls, dims>>

\* line 52: ws.recv raises (the connection dropped): no frame is received
RecvRaise ==
    /\ pc = "reading"
    /\ pc' = "raised"
    /\ UNCHANGED <<workflow, seed, prompt, ws, posted, prompt_id, output_node_id,
                   output_images, current_node, out, nrecv, images, files, nclose,
                   named, accepted, nbin, call, ncalls, dims>>

\* lines 52-58: ws.recv returns a text frame the loop cannot decode (it is not
\* JSON, or it lacks a key the loop reads): the frame is received, then
\* json.loads or the subscript raises
DecodeRaise ==
    /\ pc = "reading"
    /\ nrecv < MaxFrames
    /\ out' = BadText
    /\ nrecv' = nrecv + 1
    /\ pc' = "raised"
    /\ UNCHANGED <<workflow, seed, prompt, ws, posted, prompt_id, output_node_id,
                   output_images, current_node, images, files, nclose,
                   named, accepted, nbin, call, ncalls, dims>>

\* ws.close() issued while the loop is still reading
CloseWhileReading ==
    /\ pc \in {"reading", "returned"}
    /\ ws' = "closed"
    /\ nclose' = nclose + 1
    /\ pc' = "closed"
    /\ UNCHANGED <<workflow, seed, prompt, posted, prompt_id, output_node_id,
                   output_images, current_node, out, nrecv, images, files,
                   named, accepted, nbin, call, ncalls, dims>>

\* line 126: ws.close()
Close ==
    /\ pc = "returned"
    /\ ws' = "closed"
    /\ nclose' = nclose + 1
    /\ pc' = "closed"
    /\ UNCHANGED <<workflow, seed, prompt, posted, prompt_id, output_node_id,
                   output_images, current_node, out, nrecv, images, files,
                   named, accepted, nbin, call, ncalls, dims>>

\* line 128: save_images(images, ...)
SaveImages ==
    /\ pc = "closed"
    /\ files' = files \o save_images(images)
    /\ pc' = "saved"
    /\ UNCHANGED <<workflow, seed, prompt, ws, posted, prompt_id, output_node_id,
                   output_images, current_node, out, nrecv, images, nclose,
                   named, accepted, nbin, call, ncalls, dims>>

Next ==
    \/ LoadPrompt
    \/ Connect
    \/ ConnectRaise
    \/ GetImagesEnter
    \/ QueuePromptRaise
    \/ QueuePromptRaiseAfterPost
    \/ Recv
    \/ RecvRaise
    \/ DecodeRaise
    \/ Close
    \/ SaveImages

Spec == Init /\ [][Next]_vars

(***************************************************************************)
(* Direct calls of the patch functions on arbitrary graphs                 *)
(***************************************************************************)
Titles == {"Seed", "Ratio", "Size"}
Values == {"7", "LANDSCAPE"}

InitPatch ==
    /\ workflow \in Graphs
    /\ seed \in Seeds
    /\ prompt = workflow
    /\ pc = "calls"
    /\ Idle
    /\ call = NoCall /\ ncalls = 0 /\ dims = <<0, 0>>

CallUpdateNodeValue ==
    /\ pc = "calls" /\ ncalls < MaxCalls
    /\ \E title \in Titles, value \in Values :
         LET r == update_node_value(prompt, title, value)
         IN  /\ prompt' = r.prompt
             /\ call' = [fn |-> "update_node_value", title |-> title,
                         value |-> value, ret |-> r.ret]
    /\ ncalls' = ncalls + 1
    /\ UNCHANGED <<workflow, seed, pc, ws, posted, prompt_id, output_node_id,
                   output_images, current_node, out, nrecv, images, files, nclose,
                   named, accepted, nbin, dims>>

CallUpdateKsamplerSteps ==
    /\ pc = "calls" /\ ncalls < MaxCalls
    /\ \E value \in Values :
         LET r == update_ksampler_steps(prompt, value)
         IN  /\ prompt' = r.prompt
             /\ call' = [fn |-> "update_ksampler_steps", title |-> "",
                         value |-> value, ret |-> r.ret]
    /\ ncalls' = ncalls + 1
    /\ UNCHANGED <<workflow, seed, pc, ws, posted, prompt_id, output_node_id,
                   output_images, current_node, out, nrecv, images, files, nclose,
                   named, accepted, nbin, dims>>

\* load_prompt reads the file anew and returns the patched graph
CallLoadPrompt ==
    /\ pc = "calls" /\ ncalls < MaxCalls
    /\ prompt' = load_prompt(workflow, seed)
    /\ call' = [fn |-> "load_prompt", title |-> "", value |-> seed, ret |-> TRUE]
    /\ ncalls' = ncalls + 1
    /\ UNCHANGED <<workflow, seed, pc, ws, posted, prompt_id, output_node_id,
                   output_images, current_node, out, nrecv, images, files, nclose,
                   named, accepted, nbin, dims>>

NextPatch ==
    \/ CallUpdateNodeValue
    \/ CallUpdateKsamplerSteps
    \/ CallLoadPrompt

SpecPatch == InitPatch /\ [][NextPatch]_vars

(***************************************************************************)
(* The aspect-ratio computation on arbitrary dimensions                    *)
(***************************************************************************)
InitRatio ==
    /\ workflow = <<>> /\ seed \in Seeds /\ prompt = <<>>
    /\ pc = "ratio"
    /\ Idle
    /\ call = NoCall /\ ncalls = 0
    /\ dims \in (0..MaxDim) \X (0..MaxDim)

CallApplyRatio ==
    /\ pc = "ratio" /\ ncalls < MaxCalls
    /\ \E selector \in Selectors :
         /\ dims' = apply_ratio(dims, selector)
         /\ call' = [fn |-> "apply_ratio", title |-> selector,
                     value |-> "", ret |-> TRUE]
    /\ ncalls' = ncalls + 1
    /\ UNCHANGED <<workflow, seed, prompt, pc, ws, posted, prompt_id, output_node_id,
                   output_images, current_node, out, nrecv, images, files, nclose,
                   named, accepted, nbin>>

NextRatio == CallApplyRatio

SpecRatio == InitRatio /\ [][NextRatio]_vars

(***************************************************************************)
(* Properties                                                              *)
(***************************************************************************)
\* the step is one iteration of the read loop
Received == pc = "reading" /\ nrecv' = nrecv + 1

\* f is the completion event of job pid: 'executing', that job, node null
IsCompletion(f, pid) ==
    ~f.bin /\ f.type = "executing" /\ f.prompt_id = pid /\ f.node = None

\* bytes with the first 8 removed
Drop8(bytes) == [i \in 1..(IF Len(bytes) > 8 THEN Len(bytes) - 8 ELSE 0) |-> bytes[i + 8]]

\* the first node of g whose class_type is SaveImageWebsocket, None without one
FirstOutputId(g) ==
    IF \E i \in 1..Len(g) : IsOutputNode(g[i][2])
    THEN Some(g[CHOOSE i \in 1..Len(g) :
                   /\ IsOutputNode(g[i][2])
                   /\ \A j \in 1..(i - 1) : ~IsOutputNode(g[j][2])][1])
    ELSE None

\* C1: a binary frame is appended to the collection if and only if a node has
\* been named by an 'executing' event of this job and the node named last is
\* the output node; otherwise (also before any node is named) the collection
\* is unchanged.
C1_AppendIffNamedOutput ==
    [][(Received /\ out'.bin) =>
          ((output_images' # output_images) <=>
               (named # None /\ named = output_node_id))]_vars

\* C2: get_images returns only in a loop step that receives the completion
\* event of the submitted job, and every loop step that receives it returns;
\* no other frame makes it return.
C2_ReturnsExactlyOnCompletion ==
    [][/\ (pc # "returned" /\ pc' = "returned")
             => (Received /\ IsCompletion(out', prompt_id))
       /\ (Received /\ IsCompletion(out', prompt_id)) => pc' = "returned"]_vars

C2_Witness ==
    /\ pc = "returned" /\ nrecv >= 3 /\ nbin >= 1
    /\ IsCompletion(out, prompt_id)

\* C3: once a frame has been read the output node id is the id of the first
\* SaveImageWebsocket node of the graph; with no such node nothing is ever
\* collected and get_images returns the empty mapping.
C3_OutputResolvedFirst ==
    /\ (pc \in {"reading", "returned", "closed", "saved"} \/ nrecv > 0)
          => output_node_id = FirstOutputId(prompt)
    /\ (pc # "start" /\ FirstOutputId(prompt) = None)
          => (output_images = <<>> /\ images = <<>> /\ accepted = <<>>)

C3_Witness ==
    /\ pc = "returned" /\ FirstOutputId(prompt) = None
    /\ nbin >= 2 /\ images = <<>>

\* the step is a direct call of update_node_value(prompt, "Seed", V) on a
\* graph holding a node titled "Seed"
SeedCall ==
    /\ ncalls' = ncalls + 1
    /\ call'.fn = "update_node_value" /\ call'.title = "Seed"
    /\ \E i \in 1..Len(prompt) : HasTitle(prompt[i][2], "Seed")

\* g2 is g with inputs.value of node i set to v and nothing else changed
PatchedAt(g, g2, i, v) ==
    /\ Len(g2) = Len(g)
    /\ \A j \in 1..Len(g) : j # i => g2[j] = g[j]
    /\ g2[i][1] = g[i][1]
    /\ DOMAIN g2[i][2] = DOMAIN g[i][2] \cup {"inputs"}
    /\ \A k \in DOMAIN g[i][2] \ {"inputs"} : g2[i][2][k] = g[i][2][k]
    /\ "value" \in DOMAIN g2[i][2]["inputs"]
    /\ g2[i][2]["inputs"]["value"] = v
    /\ "inputs" \in DOMAIN g[i][2] =>
          /\ DOMAIN g2[i][2]["inputs"] = DOMAIN g[i][2]["inputs"] \cup {"value"}
          /\ \A k \in DOMAIN g[i][2]["inputs"] \ {"value"} :
                g2[i][2]["inputs"][k] = g[i][2]["inputs"][k]

\* C4 as stated: on every graph holding a node titled "Seed" the call leaves a
\* node titled "Seed" with inputs.value = V and changes nothing else.
C4_SeedAlwaysPatched ==
    [][SeedCall =>
          \E i \in 1..Len(prompt) :
              HasTitle(prompt[i][2], "Seed") /\ PatchedAt(prompt, prompt', i, call'.value)]_vars

\* C4 amended: when the first node titled "Seed" has an inputs mapping the call
\* returns True, sets that node's inputs.value to V and changes nothing else;
\* when it has none the call returns False and the graph is unchanged.
C4_FirstSeedPatchedIfInputs ==
    [][SeedCall =>
          LET i == CHOOSE i \in 1..Len(prompt) :
                       /\ HasTitle(prompt[i][2], "Seed")
                       /\ \A j \in 1..(i - 1) : ~HasTitle(prompt[j][2], "Seed")
          IN  IF "inputs" \in DOMAIN prompt[i][2]
              THEN call'.ret /\ PatchedAt(prompt, prompt', i, call'.value)
              ELSE ~call'.ret /\ prompt' = prompt]_vars

C4_Witness ==
    /\ call.fn = "update_node_value" /\ call.title = "Seed" /\ call.ret
    /\ Len(prompt) = 2
    /\ HasTitle(prompt[1][2], "Seed") /\ HasTitle(prompt[2][2], "Seed")
    /\ prompt[1][2] = [SeedNode EXCEPT !["inputs"]["value"] = call.value]
    /\ prompt[2][2] = SeedNode
    /\ call.value # SeedNode["inputs"]["value"]

\* the patches load_prompt applies by title
TitlePatches ==
    { <<"Ratio", ratio>>, <<"ContentPrompt", content_prompt>>,
      <<"Seed", seed>>, <<"Size", size_float>> }

\* C5: update_node_value on a graph with no node of the requested title
\* returns False and leaves the graph unchanged; load_prompt applies every
\* patch whose node is present whichever other patches failed, and returns a
\* graph with the same nodes.
C5_MissingTitleNoOp ==
    [][(ncalls' = ncalls + 1) =>
          /\ (/\ call'.fn = "update_node_value"
              /\ \A i \in 1..Len(prompt) : ~HasTitle(prompt[i][2], call'.title))
                => (~call'.ret /\ prompt' = prompt)
          /\ call'.fn = "load_prompt" =>
                /\ Len(prompt') = Len(workflow)
                /\ \A i \in 1..Len(workflow) : prompt'[i][1] = workflow[i][1]
                /\ \A tv \in TitlePatches : \A i \in 1..Len(workflow) :
                      (/\ HasTitle(workflow[i][2], tv[1])
                       /\ \A j \in 1..(i - 1) : ~HasTitle(workflow[j][2], tv[1])
                       /\ "inputs" \in DOMAIN workflow[i][2])
                         => /\ "inputs" \in DOMAIN prompt'[i][2]
                            /\ "value" \in DOMAIN prompt'[i][2]["inputs"]
                            /\ prompt'[i][2]["inputs"]["value"] = tv[2]]_vars

C5_Witness ==
    /\ call.fn = "load_prompt"
    /\ \A i \in 1..Len(workflow) : ~HasTitle(workflow[i][2], "Ratio")
    /\ \E i \in 1..Len(workflow) :
          /\ workflow[i][2] = SeedNode
          /\ prompt[i][2]["inputs"]["value"] = seed
          /\ seed # SeedNode["inputs"]["value"]

\* C6: save_images writes one file per entry of the collected mapping, holding
\* the first blob of the entry; later blobs are not written; an empty mapping
\* writes nothing, and the call does not fail.
C6_FirstBlobPerEntry ==
    /\ pc = "saved" =>
          /\ Len(files) = Len(images)
          /\ \A i \in 1..Len(images) : files[i] = Head(images[i][2])
    /\ pc = "closed" => ENABLED SaveImages

C6_Witness ==
    /\ pc = "saved" /\ Len(images) = 1 /\ Len(images[1][2]) = 2
    /\ images[1][2][1] # images[1][2][2]
    /\ files = <<images[1][2][1]>>

\* C7: LANDSCAPE gives height floor(H * 9 / 16) and the width unchanged,
\* PORTRAIT gives width floor(W * 9 / 16) and the height unchanged, SQUARE or
\* an unrecognized selector gives (W, H).
C7_AspectRatio ==
    [][(ncalls' = ncalls + 1 /\ call'.fn = "apply_ratio") =>
          /\ call'.title = "LANDSCAPE" =>
                (dims'[1] = dims[1] /\ dims'[2] * 16 <= dims[2] * 9
                                    /\ dims[2] * 9 < (dims'[2] + 1) * 16)
          /\ call'.title = "PORTRAIT" =>
                (dims'[2] = dims[2] /\ dims'[1] * 16 <= dims[1] * 9
                                    /\ dims[1] * 9 < (dims'[1] + 1) * 16)
          /\ call'.title \notin {"LANDSCAPE", "PORTRAIT"} => dims' = dims]_vars

C7_Witness ==
    /\ call.fn = "apply_ratio" /\ call.title = "LANDSCAPE" /\ ncalls = 1
    /\ dims = <<17, 9>>

\* C8: a text event that is not 'executing', or that carries another job's id,
\* changes neither the current node nor the collection, and the loop goes on.
C8_ForeignEventsIgnored ==
    [][(/\ Received /\ out' \in TextFrames
        /\ (out'.type # "executing" \/ out'.prompt_id # prompt_id)) =>
          /\ current_node' = current_node
          /\ output_images' = output_images
          /\ pc' = "reading"]_vars

C8_Witness ==
    /\ pc = "reading" /\ ~out.bin /\ out.type = "executing"
    /\ out.prompt_id # prompt_id /\ out.prompt_id \in JobIds
    /\ out.node = output_node_id
    /\ current_node # output_node_id /\ named # None

\* C9: the job is posted once, after the socket is open and with the patched
\* graph; frames are read only after the post; the socket is closed at most
\* once and only after the completion event; files are written only after the
\* close; a run that raised or is still reading has closed nothing and
\* written nothing.
C9_StepOrder ==
    /\ Len(posted) <= 1 /\ nclose <= 1
    /\ ws # "new" => (pc # "start" /\ prompt = load_prompt(workflow, seed))
    /\ posted # <<>> => (ws # "new" /\ posted = <<load_prompt(workflow, seed)>>)
    /\ nrecv > 0 => posted # <<>>
    /\ (ws = "closed") <=> (nclose = 1)
    /\ nclose = 1 => (nrecv > 0 /\ IsCompletion(out, prompt_id))
    /\ (pc = "saved" \/ files # <<>>) => nclose = 1
    /\ pc \in {"raised", "reading"} => (nclose = 0 /\ files = <<>>)

C9_Witness ==
    /\ pc = "saved" /\ files # <<>> /\ nclose = 1 /\ ws = "closed"

\* C10: when get_images has returned, the mapping is empty if no frame was
\* retained, and otherwise has the single key output_node_id whose list is the
\* retained frames in arrival order, each without its first 8 bytes.
C10_CollectedInOrder ==
    pc \in {"returned", "closed", "saved"} =>
        IF accepted = <<>>
        THEN images = <<>>
        ELSE /\ Len(images) = 1
             /\ Some(images[1][1]) = output_node_id
             /\ Len(images[1][2]) = Len(accepted)
             /\ \A i \in 1..Len(accepted) : images[1][2][i] = Drop8(accepted[i])

C10_Witness ==
    /\ pc = "returned" /\ Len(accepted) = 2
    /\ Len(accepted[1]) > 8 /\ Len(accepted[2]) <= 8
    /\ images[1][2] = <<Drop8(accepted[1]), <<>>>>

====
